---- MODULE Spec2Model ----
(***************************************************************************)
(* A model of Burrow's sarama helper (core/internal/helpers/sarama.go):    *)
(* the Kafka version resolver (parseKafkaVersion and its legacy fallback   *)
(* table) and the client-profile configuration builder                     *)
(* (GetSaramaConfigFromClientProfile), which reads the process-wide viper  *)
(* configuration store and the TLS files and either returns a             *)
(* sarama.Config or panics.                                                *)
(*                                                                         *)
(* Strings that the code only passes around are TLA+ strings.  A viper key *)
(* "a.b.c" is the path <<"a", "b", "c">> that viper itself splits it into. *)
(* A panic message built by concatenation is the tuple of its parts.       *)
(***************************************************************************)
EXTENDS Naturals, Sequences, FiniteSets, TLC

VARIABLES
    viper,      \* the viper store: [config: key -> value, defaults: key -> value]
    files,      \* the filesystem: path -> content of the readable files
    result,     \* outcome of the latest GetSaramaConfigFromClientProfile call
    call,       \* <<profileName>> of the latest call, <<>> before the first
    prev,       \* outcome of the call before the latest one
    prevCall,   \* <<profileName>> of the call before the latest one, or <<>>
    resolved,   \* version string -> outcome of parseKafkaVersion on it
    transport,  \* the sarama client and its brokers, Null before one is created
    handles,    \* the BurrowSaramaBroker values handed out so far, in order
    tlog,       \* the transport calls made by the latest adapter call, in order
    ret,        \* what the latest adapter call returned
    mock        \* a MockSaramaClient: its expectations and recorded calls

clientVars == <<transport, handles, tlog, ret, mock>>

vars == <<viper, files, result, call, prev, prevCall, resolved,
          transport, handles, tlog, ret, mock>>

\* A Go pointer is the set of what it points to: empty when nil.
Null == {}
Ref(x) == {x}
Deref(p) == CHOOSE x \in p : TRUE

EmptyMap == [k \in {} |-> k]

(***************************************************************************)
(* Version strings and sarama.ParseKafkaVersion.                           *)
(***************************************************************************)

\* Characters of every version string the model feeds to the resolver
\* (TLC cannot index into a string, so the characters are tabulated).
Chars(s) ==
    CASE s = ""         -> <<>>
      [] s = "0.8"      -> <<"0", ".", "8">>
      [] s = "0.8.0"    -> <<"0", ".", "8", ".", "0">>
      [] s = "0.8.1"    -> <<"0", ".", "8", ".", "1">>
      [] s = "0.8.2"    -> <<"0", ".", "8", ".", "2">>
      [] s = "0.9"      -> <<"0", ".", "9">>
      [] s = "0.9.0"    -> <<"0", ".", "9", ".", "0">>
      [] s = "0.10"     -> <<"0", ".", "1", "0">>
      [] s = "0.10.0"   -> <<"0", ".", "1", "0", ".", "0">>
      [] s = "0.10.1"   -> <<"0", ".", "1", "0", ".", "1">>
      [] s = "0.10.2"   -> <<"0", ".", "1", "0", ".", "2">>
      [] s = "0.11"     -> <<"0", ".", "1", "1">>
      [] s = "0.11.0"   -> <<"0", ".", "1", "1", ".", "0">>
      [] s = "0.8.2.1"  -> <<"0", ".", "8", ".", "2", ".", "1">>
      [] s = "0.10.2.1" -> <<"0", ".", "1", "0", ".", "2", ".", "1">>
      [] s = "2.8.0"    -> <<"2", ".", "8", ".", "0">>
      [] s = "0.12"     -> <<"0", ".", "1", "2">>
      [] s = "0.8.3"    -> <<"0", ".", "8", ".", "3">>
      [] s = "2.8"      -> <<"2", ".", "8">>
      [] s = "2.8.0.1"  -> <<"2", ".", "8", ".", "0", ".", "1">>
      [] s = "2.x.0"    -> <<"2", ".", "x", ".", "0">>
      [] s = "2.8.0."   -> <<"2", ".", "8", ".", "0", ".">>

VersionStrings ==
    { "", "0.8", "0.8.0", "0.8.1", "0.8.2", "0.9", "0.9.0", "0.10", "0.10.0",
      "0.10.1", "0.10.2", "0.11", "0.11.0", "0.8.2.1", "0.10.2.1", "2.8.0",
      "0.12", "0.8.3", "2.8", "2.8.0.1", "2.x.0", "2.8.0." }

Digits == {"0", "1", "2", "3", "4", "5", "6", "7", "8", "9"}

DigitVal(c) ==
    CASE c = "0" -> 0 [] c = "1" -> 1 [] c = "2" -> 2 [] c = "3" -> 3
      [] c = "4" -> 4 [] c = "5" -> 5 [] c = "6" -> 6 [] c = "7" -> 7
      [] c = "8" -> 8 [] c = "9" -> 9

\* The dot-separated fields of a character sequence ("a..b" has an empty one).
RECURSIVE SplitDots(_)
SplitDots(cs) ==
    IF \A i \in 1..Len(cs) : cs[i] # "."
    THEN <<cs>>
    ELSE LET i == CHOOSE j \in 1..Len(cs) :
                      cs[j] = "." /\ \A k \in 1..(j - 1) : cs[k] # "."
         IN  <<SubSeq(cs, 1, i - 1)>> \o SplitDots(SubSeq(cs, i + 1, Len(cs)))

\* \d+ : one or more decimal digits.
IsNumber(f) == Len(f) > 0 /\ \A i \in 1..Len(f) : f[i] \in Digits

\* %d of a \d+ field.
RECURSIVE NumberVal(_)
NumberVal(f) ==
    IF Len(f) = 0 THEN 0
    ELSE 10 * NumberVal(SubSeq(f, 1, Len(f) - 1)) + DigitVal(f[Len(f)])

\* sarama.KafkaVersion: [4]uint{major, minor, veryMinor, patch}.
V0_8_2_0  == <<0, 8, 2, 0>>
V0_8_2_1  == <<0, 8, 2, 1>>
V0_8_2_2  == <<0, 8, 2, 2>>
V0_9_0_0  == <<0, 9, 0, 0>>
V0_10_0_0 == <<0, 10, 0, 0>>
V0_10_1_0 == <<0, 10, 1, 0>>
V0_10_2_0 == <<0, 10, 2, 0>>
V0_11_0_0 == <<0, 11, 0, 0>>

\* sarama.ParseKafkaVersion: fewer than five characters is an error; a string
\* starting with '0' must match ^0\.\d+\.\d+\.\d+$ and any other string
\* ^\d+\.\d+\.\d+$ .  The result is [err, version].
ParseKafkaVersion(s) ==
    LET cs == Chars(s)
        fs == SplitDots(cs)
        bad == [err |-> TRUE, version |-> <<>>]
    IN  IF Len(cs) < 5 THEN bad
        ELSE IF cs[1] = "0"
        THEN IF Len(fs) = 4 /\ fs[1] = <<"0">> /\ \A i \in 2..4 : IsNumber(fs[i])
             THEN [err |-> FALSE,
                   version |-> <<0, NumberVal(fs[2]), NumberVal(fs[3]), NumberVal(fs[4])>>]
             ELSE bad
        ELSE IF Len(fs) = 3 /\ \A i \in 1..3 : IsNumber(fs[i])
             THEN [err |-> FALSE,
                   version |-> <<NumberVal(fs[1]), NumberVal(fs[2]), NumberVal(fs[3]), 0>>]
             ELSE bad

\* The keys of the legacy fallback table.
LegacyKeys ==
    { "", "0.8.0", "0.8.1", "0.8.2", "0.8", "0.9.0", "0.9", "0.10.0",
      "0.10.1", "0.10.2", "0.10", "0.11.0", "0.11" }

\* The legacy fallback table, entry for entry.
LegacyEntry(s) ==
        CASE s = ""       -> V0_10_2_0
          [] s = "0.8.0"  -> V0_8_2_0
          [] s = "0.8.1"  -> V0_8_2_1
          [] s = "0.8.2"  -> V0_8_2_2
          [] s = "0.8"    -> V0_8_2_0
          [] s = "0.9.0"  -> V0_9_0_0
          [] s = "0.9"    -> V0_9_0_0
          [] s = "0.10.0" -> V0_10_0_0
          [] s = "0.10.1" -> V0_10_1_0
          [] s = "0.10.2" -> V0_10_2_0
          [] s = "0.10"   -> V0_10_0_0
          [] s = "0.11.0" -> V0_11_0_0
          [] s = "0.11"   -> V0_11_0_0

\* Mutant: "0.8.1" collapsed onto the entry of "0.8.0".
legacyFallback_Collapsed081 ==
    [s \in LegacyKeys |-> IF s = "0.8.1" THEN V0_8_2_0 ELSE LegacyEntry(s)]

\* Mutant: "0.10" moved to the latest 0.10 release of the table.
legacyFallback_LatestMinor ==
    [s \in LegacyKeys |-> IF s = "0.10" THEN V0_10_2_0 ELSE LegacyEntry(s)]

legacyKafkaVersionFallback == [s \in LegacyKeys |-> LegacyEntry(s)]

\* A panic is the tuple of the parts its message is concatenated from;
\* NoPanic is a call that returned.
NoPanic == <<>>

\* Mutant: an unknown string falls back to the table's default entry.
parseKafkaVersion_DefaultsUnknown(kafkaVersion) ==
    LET strict == ParseKafkaVersion(kafkaVersion)
    IN  IF strict.err
        THEN IF kafkaVersion \in DOMAIN legacyKafkaVersionFallback
             THEN [panic |-> NoPanic, version |-> legacyKafkaVersionFallback[kafkaVersion]]
             ELSE [panic |-> NoPanic, version |-> legacyKafkaVersionFallback[""]]
        ELSE [panic |-> NoPanic, version |-> strict.version]

\* parseKafkaVersion: the strict parser first, the table on its error, a
\* panic when the table has no such key.  The result is [panic, version].
parseKafkaVersion(kafkaVersion) ==
    LET strict == ParseKafkaVersion(kafkaVersion)
    IN  IF strict.err
        THEN IF kafkaVersion \in DOMAIN legacyKafkaVersionFallback
             THEN [panic |-> NoPanic, version |-> legacyKafkaVersionFallback[kafkaVersion]]
             ELSE [panic |-> <<"Unknown Kafka Version: ", kafkaVersion>>, version |-> <<>>]
        ELSE [panic |-> NoPanic, version |-> strict.version]

(***************************************************************************)
(* The viper store.  Values set from the configuration input live in       *)
(* config, values installed by SetDefault in defaults; a read prefers      *)
(* config.                                                                 *)
(***************************************************************************)

IsPrefix(p, k) == Len(p) <= Len(k) /\ SubSeq(k, 1, Len(p)) = p

\* viper.IsSet: the key has a value, or is the path of a section holding one.
IsSet(v, key) ==
    \E k \in (DOMAIN v.config) \cup (DOMAIN v.defaults) : IsPrefix(key, k)

\* viper.GetString, GetBool and GetInt: the zero value for a key never set.
GetString(v, key) ==
    IF key \in DOMAIN v.config THEN v.config[key]
    ELSE IF key \in DOMAIN v.defaults THEN v.defaults[key]
    ELSE ""

GetBool(v, key) ==
    IF key \in DOMAIN v.config THEN v.config[key]
    ELSE IF key \in DOMAIN v.defaults THEN v.defaults[key]
    ELSE FALSE

GetInt(v, key) ==
    IF key \in DOMAIN v.config THEN v.config[key]
    ELSE IF key \in DOMAIN v.defaults THEN v.defaults[key]
    ELSE 0

\* viper.SetDefault writes the defaults only.
SetDefault(v, key, value) ==
    [v EXCEPT !.defaults = (key :> value) @@ @]

(***************************************************************************)
(* The files and the crypto/x509 and crypto/tls calls on them.  A file's   *)
(* content is [certs, keys]: the certificates and the private keys of its  *)
(* PEM blocks, a certificate being [subject, key].                         *)
(***************************************************************************)

\* os.ReadFile: [err, data].
ReadFile(fs, path) ==
    IF path \in DOMAIN fs
    THEN [err |-> FALSE, data |-> fs[path]]
    ELSE [err |-> TRUE, data |-> [certs |-> <<>>, keys |-> <<>>]]

\* x509.NewCertPool and CertPool.AppendCertsFromPEM: [pool, ok], ok being
\* whether a certificate was found.
NewCertPool == {}

AppendCertsFromPEM(pool, data) ==
    [pool |-> pool \cup {data.certs[i] : i \in 1..Len(data.certs)},
     ok   |-> Len(data.certs) > 0]

\* tls.LoadX509KeyPair: both files readable, a certificate in the first, a
\* private key in the second, and the key that of the leaf certificate.
LoadX509KeyPair(fs, certFile, keyFile) ==
    LET c == ReadFile(fs, certFile)
        k == ReadFile(fs, keyFile)
    IN  IF c.err \/ k.err \/ Len(c.data.certs) = 0 \/ Len(k.data.keys) = 0
        THEN [err |-> TRUE, cert |-> <<>>]
        ELSE IF c.data.certs[1].key # k.data.keys[1]
        THEN [err |-> TRUE, cert |-> <<>>]
        ELSE [err |-> FALSE, cert |-> <<c.data.certs[1], k.data.keys[1]>>]

(***************************************************************************)
(* GetSaramaConfigFromClientProfile.  Each stage takes the sarama.Config   *)
(* built so far and gives [panic, config].                                 *)
(***************************************************************************)

\* time.Second in milliseconds, the unit durations are kept in here.
Second == 1000

V2_1_0_0 == <<2, 1, 0, 0>>

\* sarama.NewConfig(): the fields the builder or a claim reads, at their
\* library defaults.
NewConfig ==
    [ClientID                 |-> "sarama",
     Version                  |-> V2_1_0_0,
     ConsumerReturnErrors     |-> FALSE,
     TLSEnable                |-> FALSE,
     TLSConfig                |-> Null,
     SASLEnable               |-> FALSE,
     SASLMechanism            |-> "",
     SCRAMClientGeneratorFunc |-> Null,
     SASLHandshake            |-> TRUE,
     SASLUser                 |-> "",
     SASLPassword             |-> "",
     TokenProvider            |-> Null,
     DialTimeout              |-> 30 * Second,
     ReadTimeout              |-> 30 * Second]

SASLTypeSCRAMSHA256 == "SCRAM-SHA-256"
SASLTypeSCRAMSHA512 == "SCRAM-SHA-512"
SASLTypeOAuth       == "OAUTHBEARER"

Returned(c) == [panic |-> NoPanic, config |-> c]
Panicked(msg, c) == [panic |-> msg, config |-> c]

\* &tls.Config{}
EmptyTLSConfig ==
    [RootCAs |-> Null, Certificates |-> <<>>, InsecureSkipVerify |-> FALSE]

\* Mutant: no CA file taken to mean no TLS.
TLSWithoutCA_Disabled(c) ==
    [c EXCEPT !.TLSEnable = FALSE, !.TLSConfig = Ref(EmptyTLSConfig)]

\* caFile == "": an empty tls.Config, and nothing else.
TLSWithoutCA(c) == [c EXCEPT !.TLSConfig = Ref(EmptyTLSConfig)]

\* caFile # "": read the CA file, fill a pool from it, and then load the
\* certificate and key when both paths are given.
TLSWithCA(fs, c, caFile, certFile, keyFile) ==
    LET caCert == ReadFile(fs, caFile)
        caCertPool == AppendCertsFromPEM(NewCertPool, caCert.data).pool
        c1 == [c EXCEPT !.TLSConfig =
                  Ref([EmptyTLSConfig EXCEPT !.RootCAs = Ref(caCertPool)])]
        pair == LoadX509KeyPair(fs, certFile, keyFile)
    IN  IF caCert.err
        THEN Panicked(<<"cannot read TLS CA file: ", caFile>>, c)
        ELSE IF certFile # "" /\ keyFile # ""
        THEN IF pair.err
             THEN Panicked(<<"cannot read TLS certificate or key file: ",
                             certFile, keyFile>>, c1)
             ELSE Returned([c1 EXCEPT !.TLSConfig =
                      Ref([Deref(c1.TLSConfig) EXCEPT !.Certificates = <<pair.cert>>])])
        ELSE Returned(c1)

\* Configure TLS if enabled.
ConfigureTLS(v, fs, configRoot, c) ==
    IF ~IsSet(v, Append(configRoot, "tls"))
    THEN Returned(c)
    ELSE LET tlsName  == GetString(v, Append(configRoot, "tls"))
             c1       == [c EXCEPT !.TLSEnable = TRUE]
             certFile == GetString(v, <<"tls", tlsName, "certfile">>)
             keyFile  == GetString(v, <<"tls", tlsName, "keyfile">>)
             caFile   == GetString(v, <<"tls", tlsName, "cafile">>)
             loaded   == IF caFile = ""
                         THEN Returned(TLSWithoutCA(c1))
                         ELSE TLSWithCA(fs, c1, caFile, certFile, keyFile)
         IN  IF loaded.panic # NoPanic
             THEN loaded
             ELSE Returned([loaded.config EXCEPT !.TLSConfig =
                      Ref([Deref(loaded.config.TLSConfig) EXCEPT !.InsecureSkipVerify =
                              GetBool(v, <<"tls", tlsName, "noverify">>)])])

\* Configure SASL if enabled.
ConfigureSASL(v, configRoot, c) ==
    IF ~IsSet(v, Append(configRoot, "sasl"))
    THEN c
    ELSE LET saslName  == GetString(v, Append(configRoot, "sasl"))
             mechanism == GetString(v, <<"sasl", saslName, "mechanism">>)
             c1 == [c EXCEPT !.SASLEnable = TRUE]
             c2 == IF mechanism = "SCRAM-SHA-256"
                   THEN [c1 EXCEPT !.SASLMechanism = SASLTypeSCRAMSHA256,
                                   !.SCRAMClientGeneratorFunc = Ref("SHA256")]
                   ELSE IF mechanism = "SCRAM-SHA-512"
                   THEN [c1 EXCEPT !.SASLMechanism = SASLTypeSCRAMSHA512,
                                   !.SCRAMClientGeneratorFunc = Ref("SHA512")]
                   ELSE c1
         IN  [c2 EXCEPT
                 !.SASLHandshake = GetBool(v, <<"sasl", saslName, "handshake-first">>),
                 !.SASLUser      = GetString(v, <<"sasl", saslName, "username">>),
                 !.SASLPassword  = GetString(v, <<"sasl", saslName, "password">>)]

\* Mutant: the TLS requirement forgotten.
IAMRequirements_NoTLSCheck(profileName, iamName, region, tlsEnable) ==
    IF region = ""
    THEN <<"iam.", iamName, ": region is required">>
    ELSE NoPanic

\* What a named iam sub-profile requires: a region, and TLS on the profile.
\* The panic, or NoPanic.
IAMRequirements(profileName, iamName, region, tlsEnable) ==
    IF region = ""
    THEN <<"iam.", iamName, ": region is required">>
    ELSE IF ~tlsEnable
    THEN <<"client-profile ", profileName, " uses iam.", iamName,
           " but has no tls profile">>
    ELSE NoPanic

\* Mutant: the mechanism and handshake of the sasl sub-profile left in place.
IAMAuth_KeepsSASL(c, provider) ==
    [c EXCEPT !.SASLEnable    = TRUE,
              !.TokenProvider = Ref(provider)]

\* The SASL settings of IAM auth.
IAMAuth(c, provider) ==
    [c EXCEPT !.SASLEnable    = TRUE,
              !.SASLHandshake = TRUE,
              !.SASLMechanism = SASLTypeOAuth,
              !.TokenProvider = Ref(provider)]

ConfigureIAM(v, configRoot, profileName, c) ==
    LET iamName == GetString(v, Append(configRoot, "iam"))
        iamRoot == <<"iam", iamName>>
        region  == GetString(v, Append(iamRoot, "region"))
        failed  == IAMRequirements(profileName, iamName, region, c.TLSEnable)
    IN  IF iamName = ""
        THEN Returned(c)
        ELSE IF failed # NoPanic
        THEN Panicked(failed, c)
        ELSE Returned(IAMAuth(c, [region  |-> region,
                                  roleArn |-> GetString(v, Append(iamRoot, "role-arn")),
                                  profile |-> GetString(v, Append(iamRoot, "profile"))]))

\* The dial and read timeouts, in seconds in the configuration.
ConfigureTimeouts(v, configRoot, c) ==
    LET c1 == IF IsSet(v, Append(configRoot, "dial-timeout"))
              THEN [c EXCEPT !.DialTimeout =
                       GetInt(v, Append(configRoot, "dial-timeout")) * Second]
              ELSE c
    IN  IF IsSet(v, Append(configRoot, "read-timeout"))
        THEN [c1 EXCEPT !.ReadTimeout =
                 GetInt(v, Append(configRoot, "read-timeout")) * Second]
        ELSE c1

\* Mutant: the empty name checked like any other.
ProfileUnknown_ChecksEmptyName(v, profileName) ==
    ~IsSet(v, <<"client-profile", profileName>>)

\* The existence check of the named profile.
ProfileUnknown(v, profileName) ==
    profileName # "" /\ ~IsSet(v, <<"client-profile", profileName>>)

\* The two defaults of a profile.
InstallDefaults(v, configRoot) ==
    SetDefault(SetDefault(v, Append(configRoot, "client-id"), "burrow-lagchecker"),
               Append(configRoot, "kafka-version"), "2.8.0")

\* From sarama.NewConfig() to the return, reading store v:
\* [panic, config], config a pointer that is nil after a panic.
BuildConfig(v, fs, profileName) ==
    LET configRoot == <<"client-profile", profileName>>
        version == parseKafkaVersion(GetString(v, Append(configRoot, "kafka-version")))
        c1 == [NewConfig EXCEPT
                  !.ClientID = GetString(v, Append(configRoot, "client-id")),
                  !.Version  = version.version,
                  !.ConsumerReturnErrors = TRUE]
        tls == ConfigureTLS(v, fs, configRoot, c1)
        iam == ConfigureIAM(v, configRoot, profileName,
                            ConfigureSASL(v, configRoot, tls.config))
    IN  IF version.panic # NoPanic THEN [panic |-> version.panic, config |-> Null]
        ELSE IF tls.panic # NoPanic THEN [panic |-> tls.panic, config |-> Null]
        ELSE IF iam.panic # NoPanic THEN [panic |-> iam.panic, config |-> Null]
        ELSE [panic  |-> NoPanic,
              config |-> Ref(ConfigureTimeouts(v, configRoot, iam.config))]

\* Mutant: the configuration read before the defaults are installed.
GetSaramaConfig_ReadsBeforeDefaults(v, fs, profileName) ==
    LET configRoot == <<"client-profile", profileName>>
        v1 == InstallDefaults(v, configRoot)
        built == BuildConfig(v, fs, profileName)
    IN  IF ProfileUnknown(v, profileName)
        THEN [panic  |-> <<"unknown client-profile '", profileName, "'">>,
              config |-> Null, viper |-> v]
        ELSE [panic |-> built.panic, config |-> built.config, viper |-> v1]

\* Mutant: the defaults installed before the existence check fails the call.
GetSaramaConfig_DefaultsBeforeCheck(v, fs, profileName) ==
    LET configRoot == <<"client-profile", profileName>>
        v1 == InstallDefaults(v, configRoot)
        built == BuildConfig(v1, fs, profileName)
    IN  IF ProfileUnknown(v, profileName)
        THEN [panic  |-> <<"unknown client-profile '", profileName, "'">>,
              config |-> Null, viper |-> v1]
        ELSE [panic |-> built.panic, config |-> built.config, viper |-> v1]

\* The whole call: [panic, config, viper], viper the store it leaves.
GetSaramaConfigFromClientProfile(v, fs, profileName) ==
    LET configRoot == <<"client-profile", profileName>>
        v1 == InstallDefaults(v, configRoot)
        built == BuildConfig(v1, fs, profileName)
    IN  IF ProfileUnknown(v, profileName)
        THEN [panic  |-> <<"unknown client-profile '", profileName, "'">>,
              config |-> Null, viper |-> v]
        ELSE [panic |-> built.panic, config |-> built.config, viper |-> v1]

(***************************************************************************)
(* The state machine.  The configuration input and the files are fixed     *)
(* when the process starts; each later step is one call.                   *)
(***************************************************************************)

\* Largest dial-timeout and read-timeout, in seconds, of an input.
MaxTimeout == 1

\* Most version strings resolved in one behaviour.
MaxResolved == 2

\* The profile names a caller asks for; only "test" is ever configured.
ProfileNames == {"", "test", "ghost"}

\* The files on disk; any other path cannot be read.
Files ==
    ("ca.pem"    :> [certs |-> <<[subject |-> "root-ca", key |-> "ca-key"]>>,
                     keys  |-> <<>>]) @@
    ("bad.pem"   :> [certs |-> <<>>, keys |-> <<>>]) @@
    ("cert.pem"  :> [certs |-> <<[subject |-> "burrow", key |-> "client-key"]>>,
                     keys  |-> <<>>]) @@
    ("key.pem"   :> [certs |-> <<>>, keys |-> <<"client-key">>]) @@
    ("other.key" :> [certs |-> <<>>, keys |-> <<"other-key">>])

\* One key of the configuration input, absent or with a value of vals.
Setting(key, vals) == {EmptyMap} \cup {(key :> x) : x \in vals}

Test == <<"client-profile", "test">>

\* The [tls.prod] section and the profile's tls field naming it, or neither.
TLSInputs ==
    {EmptyMap} \cup
    { (Append(Test, "tls") :> "prod") @@ ca @@ pair @@ nv :
        ca   \in Setting(<<"tls", "prod", "cafile">>,
                         {"", "ca.pem", "bad.pem", "missing.pem"}),
        pair \in { EmptyMap,
                   (<<"tls", "prod", "certfile">> :> "cert.pem"),
                   (<<"tls", "prod", "certfile">> :> "cert.pem") @@
                       (<<"tls", "prod", "keyfile">> :> "key.pem"),
                   (<<"tls", "prod", "certfile">> :> "cert.pem") @@
                       (<<"tls", "prod", "keyfile">> :> "other.key") },
        nv   \in Setting(<<"tls", "prod", "noverify">>, {TRUE}) }

\* The [sasl.scram] section and the profile's sasl field naming it, or neither.
SASLInputs ==
    {EmptyMap} \cup
    { (Append(Test, "sasl") :> "scram") @@
      (<<"sasl", "scram", "username">> :> "burrow") @@
      (<<"sasl", "scram", "password">> :> "secret") @@
      (<<"sasl", "scram", "mechanism">> :> m[1]) @@
      (<<"sasl", "scram", "handshake-first">> :> m[2]) :
        m \in { <<"SCRAM-SHA-256", FALSE>>, <<"SCRAM-SHA-512", TRUE>>,
                <<"PLAIN", FALSE>> } }

\* The [iam.eks] section and the profile's iam field, or neither.
IAMInputs ==
    { EmptyMap, (Append(Test, "iam") :> "") } \cup
    { (Append(Test, "iam") :> "eks") @@ (<<"iam", "eks", "role-arn">> :> "arn:burrow") @@ r :
        r \in Setting(<<"iam", "eks", "region">>, {"us-west-1"}) }

TimeoutInputs ==
    { d @@ r : d \in Setting(Append(Test, "dial-timeout"), 1..MaxTimeout),
               r \in Setting(Append(Test, "read-timeout"), 1..MaxTimeout) }

NotBuilt == [panic |-> NoPanic, config |-> Null]

\* No sarama client has been created, and no test double.
NoClient ==
    /\ transport = Null
    /\ handles = <<>>
    /\ tlog = <<>>
    /\ ret = Null
    /\ mock = Null

InitCalls ==
    /\ files = Files
    /\ result = NotBuilt
    /\ call = <<>>
    /\ prev = NotBuilt
    /\ prevCall = <<>>
    /\ resolved = EmptyMap

\* A [client-profile.test] with a client id and a version, and TLS, SASL, IAM
\* and timeouts out of the inputs above.
Init ==
    /\ \E ver \in {(Append(Test, "kafka-version") :> x) : x \in {"0.10.0", "2.x.0"}},
          tls \in TLSInputs, sasl \in SASLInputs, iam \in IAMInputs,
          tmo \in TimeoutInputs :
          viper = [config   |-> (Append(Test, "client-id") :> "burrow-test")
                                    @@ ver @@ tls @@ sasl @@ iam @@ tmo,
                   defaults |-> EmptyMap]
    /\ InitCalls
    /\ NoClient

\* One call of GetSaramaConfigFromClientProfile; a panic is caught by the
\* caller and recorded as the outcome.
Build(profileName) ==
    LET out == GetSaramaConfigFromClientProfile(viper, files, profileName)
    IN  /\ viper' = out.viper
        /\ result' = [panic |-> out.panic, config |-> out.config]
        /\ call' = <<profileName>>
        /\ prev' = result
        /\ prevCall' = call
        /\ UNCHANGED <<files, resolved>>
        /\ UNCHANGED clientVars

Next == \E profileName \in ProfileNames : Build(profileName)

Spec == Init /\ [][Next]_vars

\* A [client-profile.test] that sets at most a client id and any version string.
InitVersion ==
    /\ \E cid \in Setting(Append(Test, "client-id"), {"burrow-test"}),
          ver \in Setting(Append(Test, "kafka-version"), VersionStrings) :
          viper = [config |-> cid @@ ver, defaults |-> EmptyMap]
    /\ InitCalls
    /\ NoClient

\* One call of parseKafkaVersion, its outcome kept beside the earlier ones.
Resolve(kafkaVersion) ==
    /\ kafkaVersion \notin DOMAIN resolved
    /\ Cardinality(DOMAIN resolved) < MaxResolved
    /\ resolved' = (kafkaVersion :> parseKafkaVersion(kafkaVersion)) @@ resolved
    /\ UNCHANGED <<viper, files, result, call, prev, prevCall>>
    /\ UNCHANGED clientVars

NextVersion ==
    \/ \E kafkaVersion \in VersionStrings : Resolve(kafkaVersion)
    \/ Build("test")

SpecVersion == InitVersion /\ [][NextVersion]_vars

(***************************************************************************)
(* The version resolver (checked under SpecVersion).                       *)
(***************************************************************************)

\* The version string the latest call of "test" resolved: the configured
\* one, or the installed default.
ResolvedByCall == GetString(viper, Append(Test, "kafka-version"))

\* Neither the strict parser nor the table knows s.
Unrecognized(s) == ParseKafkaVersion(s).err /\ s \notin LegacyKeys

\* C1: a version string that the strict parser rejects and the legacy table
\* does not hold makes parseKafkaVersion panic with "Unknown Kafka Version"
\* and no version, and so makes the build of a profile configured with it
\* panic the same way and return no configuration.
C1_UnknownVersionFails ==
    /\ \A s \in DOMAIN resolved :
          Unrecognized(s) =>
              /\ resolved[s].panic = <<"Unknown Kafka Version: ", s>>
              /\ resolved[s].version = <<>>
    /\ (call = <<"test">> /\ Unrecognized(ResolvedByCall)) =>
          /\ result.panic = <<"Unknown Kafka Version: ", ResolvedByCall>>
          /\ result.config = Null

C1_Witness ==
    /\ "0.12" \in DOMAIN resolved
    /\ resolved["0.12"].panic # NoPanic
    /\ call = <<"test">>
    /\ ResolvedByCall = "2.8.0.1"
    /\ result.config = Null

BothResolved(a, b) == a \in DOMAIN resolved /\ b \in DOMAIN resolved

\* C2 as claimed: "0.8.0" and "0.8.1" resolve to the same protocol version.
C2_Original ==
    BothResolved("0.8.0", "0.8.1") =>
        resolved["0.8.0"].version = resolved["0.8.1"].version

\* C2 as amended: "0.8.0" and "0.8.1" both resolve into the 0.8.2 release
\* (the same major, minor and very-minor), each keeping its last index as the
\* patch level: 0.8.2.0 and 0.8.2.1, two different versions.
C2_SameReleaseOwnPatch ==
    BothResolved("0.8.0", "0.8.1") =>
        /\ resolved["0.8.0"].panic = NoPanic
        /\ resolved["0.8.1"].panic = NoPanic
        /\ SubSeq(resolved["0.8.0"].version, 1, 3) = <<0, 8, 2>>
        /\ SubSeq(resolved["0.8.1"].version, 1, 3) = <<0, 8, 2>>
        /\ resolved["0.8.0"].version[4] = 0
        /\ resolved["0.8.1"].version[4] = 1

C2_Witness ==
    /\ BothResolved("0.8.0", "0.8.1")
    /\ resolved["0.8.0"].version # resolved["0.8.1"].version

\* The order of sarama.KafkaVersion: major, minor, very-minor, patch.
VersionLess(a, b) ==
    \E i \in 1..4 : a[i] < b[i] /\ \A j \in 1..(i - 1) : a[j] = b[j]

MinorOnly == {"0.8", "0.9", "0.10", "0.11"}

\* Table key k is a point release under the minor-only key m: m, a dot, more.
Under(m, k) == k \in LegacyKeys /\ IsPrefix(Chars(m) \o <<".">>, Chars(k))

\* C3 as claimed: a minor-only string resolves to the latest version the table
\* holds under that minor: no key under it resolves strictly higher.
C3_Original ==
    \A m \in MinorOnly \cap DOMAIN resolved :
        \A k \in DOMAIN resolved :
            Under(m, k) => ~VersionLess(resolved[m].version, resolved[k].version)

\* C3 as amended: a minor-only string resolves to the version of its ".0"
\* key, the earliest the table holds under that minor: no key under it
\* resolves strictly lower.
C3_MinorOnlyIsEarliest ==
    \A m \in MinorOnly \cap DOMAIN resolved :
        /\ resolved[m].panic = NoPanic
        /\ \A k \in DOMAIN resolved :
              Under(m, k) =>
                  /\ ~VersionLess(resolved[k].version, resolved[m].version)
                  /\ (Chars(k) = Chars(m) \o <<".", "0">>) =>
                         resolved[k].version = resolved[m].version

C3_Witness ==
    /\ BothResolved("0.10", "0.10.2")
    /\ VersionLess(resolved["0.10"].version, resolved["0.10.2"].version)

(***************************************************************************)
(* The configuration builder (checked under Spec).                         *)
(***************************************************************************)

Root(n) == <<"client-profile", n>>

\* What the configuration input says of profile n.
IAMNamed(n) == GetString(viper, Append(Root(n), "iam")) # ""
TLSNamed(n) == IsSet(viper, Append(Root(n), "tls"))
TLSField(n, field) ==
    GetString(viper, <<"tls", GetString(viper, Append(Root(n), "tls")), field>>)
SASLField(n, field) ==
    <<"sasl", GetString(viper, Append(Root(n), "sasl")), field>>
IAMField(n, field) ==
    GetString(viper, <<"iam", GetString(viper, Append(Root(n), "iam")), field>>)

BuildFailed == result.panic # NoPanic /\ result.config = Null
Built == result.panic = NoPanic /\ result.config # Null
Config == Deref(result.config)

\* C4: the build of a profile that names an iam sub-profile and has no tls
\* field fails and returns no configuration, whatever its region, sasl,
\* version and timeouts are.
C4_IAMWithoutTLSFails ==
    \A n \in ProfileNames :
        (call = <<n>> /\ IAMNamed(n) /\ ~TLSNamed(n)) => BuildFailed

C4_Witness ==
    /\ call = <<"test">>
    /\ IAMNamed("test") /\ ~TLSNamed("test")
    /\ IAMField("test", "region") = "us-west-1"
    /\ IsSet(viper, Append(Test, "sasl"))
    /\ result.panic = <<"client-profile ", "test", " uses iam.", "eks",
                        " but has no tls profile">>

\* The panics of the validations that precede or accompany IAM auth: the
\* version, the TLS files, the region.
OtherValidationPanics ==
    { "Unknown Kafka Version: ", "cannot read TLS CA file: ",
      "cannot read TLS certificate or key file: ", "iam." }

\* C5: the build of a profile with an iam sub-profile and a tls field yields a
\* configuration with SASL enabled, handshake true, the OAuth mechanism and a
\* token provider, also when a sasl sub-profile selects SCRAM and handshake
\* false; it yields none only when the version, the TLS files or the region
\* fail their own validation.
C5_IAMWithTLSIsOAuth ==
    \A n \in ProfileNames :
        (call = <<n>> /\ IAMNamed(n) /\ TLSNamed(n)) =>
            IF result.config # Null
            THEN /\ result.panic = NoPanic
                 /\ Config.SASLEnable
                 /\ Config.SASLHandshake
                 /\ Config.SASLMechanism = SASLTypeOAuth
                 /\ Config.TokenProvider =
                        Ref([region  |-> IAMField(n, "region"),
                             roleArn |-> IAMField(n, "role-arn"),
                             profile |-> IAMField(n, "profile")])
            ELSE /\ result.panic # NoPanic
                 /\ result.panic[1] \in OtherValidationPanics

C5_Witness ==
    /\ call = <<"test">>
    /\ IAMNamed("test") /\ TLSNamed("test")
    /\ GetString(viper, SASLField("test", "mechanism")) = "SCRAM-SHA-256"
    /\ GetBool(viper, SASLField("test", "handshake-first")) = FALSE
    /\ Built
    /\ Config.SASLMechanism = SASLTypeOAuth
    /\ Config.SASLHandshake
    /\ Config.SCRAMClientGeneratorFunc = Ref("SHA256")

\* C6: a configuration built from a profile whose tls sub-profile gives no CA
\* file (absent or empty) has TLS enabled, a tls.Config that is present and
\* has no root pool, and the sub-profile's noverify flag.
C6_NoCAIsEmptyTrust ==
    \A n \in ProfileNames :
        (call = <<n>> /\ TLSNamed(n) /\ TLSField(n, "cafile") = "" /\ Built) =>
            /\ Config.TLSEnable
            /\ Config.TLSConfig # Null
            /\ Deref(Config.TLSConfig).RootCAs = Null
            /\ Deref(Config.TLSConfig).InsecureSkipVerify =
                   GetBool(viper, <<"tls", GetString(viper, Append(Root(n), "tls")),
                                    "noverify">>)

C6_Witness ==
    /\ call = <<"test">>
    /\ TLSNamed("test")
    /\ <<"tls", "prod", "cafile">> \in DOMAIN viper.config
    /\ TLSField("test", "cafile") = ""
    /\ Built
    /\ Config.TLSEnable
    /\ Deref(Config.TLSConfig).InsecureSkipVerify

\* C7 as claimed: when the tls sub-profile gives a certificate file and a key
\* file, the pair is in the built configuration, or the build fails when the
\* pair cannot be loaded, whether or not a CA file is given.
C7_PairLoadedWheneverGiven ==
    \A n \in ProfileNames :
        (call = <<n>> /\ TLSNamed(n)
            /\ TLSField(n, "certfile") # "" /\ TLSField(n, "keyfile") # "") =>
            LET pair == LoadX509KeyPair(files, TLSField(n, "certfile"),
                                        TLSField(n, "keyfile"))
            IN  IF pair.err
                THEN BuildFailed
                ELSE Built => Deref(Config.TLSConfig).Certificates = <<pair.cert>>

\* C8: a call for a non-empty name with no client-profile.<name> in the store
\* panics with "unknown client-profile"; a call for the empty name never does,
\* and builds from the defaults.
C8_UnknownProfileFails ==
    [][\A n \in ProfileNames :
          call' = <<n>> =>
              /\ (n # "" /\ ~IsSet(viper, Root(n))) =>
                     /\ result'.panic = <<"unknown client-profile '", n, "'">>
                     /\ result'.config = Null
              /\ (n = "") =>
                     /\ result'.panic = NoPanic
                     /\ result'.config # Null
                     /\ Deref(result'.config).ClientID = "burrow-lagchecker"
                     /\ Deref(result'.config).Version = <<2, 8, 0, 0>>]_vars

C8_Witness ==
    /\ call = <<"ghost">>
    /\ result.panic = <<"unknown client-profile '", "ghost", "'">>
    /\ prevCall = <<"">>
    /\ prev.panic = NoPanic
    /\ prev.config # Null

\* C9: two calls in a row for the same name have the same outcome: the same
\* panic, or configurations equal in every field.
C9_SameNameSameOutcome ==
    (call # <<>> /\ prevCall = call) => prev = result

C9_Witness ==
    /\ call = <<"">>
    /\ prevCall = <<"">>
    /\ Built
    /\ Config.ClientID = "burrow-lagchecker"
    /\ prev = result

\* C10 as claimed: when the tls sub-profile gives a CA file, a configuration
\* is returned only if the file was read and held a usable certificate.
C10_InvalidCAFails ==
    \A n \in ProfileNames :
        (call = <<n>> /\ TLSNamed(n) /\ TLSField(n, "cafile") # "" /\ Built) =>
            LET caCert == ReadFile(files, TLSField(n, "cafile"))
            IN  /\ ~caCert.err
                /\ AppendCertsFromPEM(NewCertPool, caCert.data).ok

\* C14: a call that fails because its non-empty name is unknown leaves the
\* store as it was, so no client-id or kafka-version default exists for that
\* name; through any call a name that was unknown stays unknown, so every
\* later call for it fails the same way; and a call that changes the store
\* has passed the existence check.
C14_UnknownProfileLeavesStore ==
    [][\A n \in ProfileNames :
          call' = <<n>> =>
              /\ (n # "" /\ ~IsSet(viper, Root(n))) =>
                     /\ result'.panic = <<"unknown client-profile '", n, "'">>
                     /\ viper' = viper
                     /\ Append(Root(n), "client-id") \notin DOMAIN viper'.defaults
                     /\ Append(Root(n), "kafka-version") \notin DOMAIN viper'.defaults
              /\ (viper' # viper) =>
                     /\ \A m \in ProfileNames \ {""} :
                            ~IsSet(viper, Root(m)) => ~IsSet(viper', Root(m))
                     /\ n = "" \/ IsSet(viper, Root(n))
                     /\ result'.panic # <<"unknown client-profile '", n, "'">>]_vars

C14_Witness ==
    /\ call = <<"ghost">>
    /\ prevCall = <<"ghost">>
    /\ result.panic = <<"unknown client-profile '", "ghost", "'">>
    /\ prev = result
    /\ ~IsSet(viper, Root("ghost"))
    /\ IsSet(viper, Root(""))

(***************************************************************************)
(* The sarama client and brokers behind BurrowSaramaClient and             *)
(* BurrowSaramaBroker.  An adapter method is an operator from what the     *)
(* transport answered to the calls it made, the value and the error it     *)
(* returned.                                                               *)
(***************************************************************************)

MaxHandles == 2
MaxTopics == 2

ClusterBrokers == {1, 2}
ClusterTopics == {"t1", "t2"}

NoErr == "nil"
Errors == {NoErr, "ErrOutOfBrokers", "ErrClosedClient", "ErrNotConnected", "EOF"}

RECURSIVE SeqsUpTo(_, _)
SeqsUpTo(S, n) ==
    IF n = 0 THEN {<<>>}
    ELSE LET shorter == SeqsUpTo(S, n - 1)
         IN  shorter \cup {Append(q, x) : q \in shorter, x \in S}

TopicLists == SeqsUpTo(ClusterTopics, MaxTopics)

Range(q) == {q[i] : i \in DOMAIN q}

\* A call of a method of the sarama client (c.Client.op(args...)) or of a
\* sarama broker (b.broker.op(args...)), with the value and the error the
\* transport answered.
ClientCall(op, args, value, err) ==
    [on |-> Null, op |-> op, args |-> args, value |-> value, err |-> err]
BrokerCall(broker, op, args, value, err) ==
    [on |-> Ref(broker), op |-> op, args |-> args, value |-> value, err |-> err]

\* What a method of the adapter did: the transport calls it made, in order,
\* and the value and error it returned.
Did(calls, value, err) == [calls |-> calls, value |-> value, err |-> err]

\* &BurrowSaramaBroker{broker}
Shim(broker) == Ref([broker |-> broker])

\* return c.Client.op(args...), the body of Topics, Partitions,
\* WritablePartitions, Replicas, InSyncReplicas, GetOffset and
\* RefreshCoordinator, and return sarama.NewConsumerFromClient(c.Client).
Forward(op, args, value, err) ==
    Did(<<ClientCall(op, args, value, err)>>, value, err)

ForwardOps ==
    { <<"Topics", <<>>>>, <<"Partitions", <<"t1">>>>,
      <<"WritablePartitions", <<"t1">>>>, <<"Replicas", <<"t1", 0>>>>,
      <<"InSyncReplicas", <<"t1", 0>>>>, <<"GetOffset", <<"t1", 0, "OffsetNewest">>>>,
      <<"RefreshCoordinator", <<"group">>>>, <<"NewConsumerFromClient", <<>>>> }

\* Brokers wraps every broker of c.Client.Brokers() in a new shim.
BurrowSaramaClient_Brokers(brokers) ==
    Did(<<ClientCall("Brokers", <<>>, brokers, NoErr)>>,
        [i \in DOMAIN brokers |-> Shim(brokers[i])], NoErr)

\* Leader and Coordinator wrap the broker the client answered, unless it is
\* nil, and return the client's error beside it.
BurrowSaramaClient_Leader(topic, partitionID, broker, err) ==
    Did(<<ClientCall("Leader", <<topic, partitionID>>, broker, err)>>,
        IF broker # Null THEN Shim(Deref(broker)) ELSE Null, err)

BurrowSaramaClient_Coordinator(consumerGroup, broker, err) ==
    Did(<<ClientCall("Coordinator", <<consumerGroup>>, broker, err)>>,
        IF broker # Null THEN Shim(Deref(broker)) ELSE Null, err)

BurrowSaramaClient_RefreshMetadata_SkipsNoTopics(topics, err) ==
    IF topics = <<>> THEN Did(<<>>, Null, NoErr)
    ELSE Did(<<ClientCall("RefreshMetadata", topics, Null, err)>>, Null, err)

BurrowSaramaClient_RefreshMetadata(topics, err) ==
    Did(<<ClientCall("RefreshMetadata", topics, Null, err)>>, Null, err)

BurrowSaramaClient_Close(err) ==
    Did(<<ClientCall("Close", <<>>, Null, err)>>, Null, err)

BurrowSaramaClient_Closed(closed) ==
    Did(<<ClientCall("Closed", <<>>, closed, NoErr)>>, closed, NoErr)

BurrowSaramaClient_ListConsumerGroups_IgnoresAdminError(adminErr, groups, listErr) ==
    Did(<<ClientCall("NewClusterAdminFromClient", <<>>, Null, adminErr),
          ClientCall("ListConsumerGroups", <<>>, groups, listErr)>>,
        groups, listErr)

\* ListConsumerGroups makes a cluster admin of the client and, if that
\* worked, asks it for the groups.
BurrowSaramaClient_ListConsumerGroups(adminErr, groups, listErr) ==
    LET newAdmin == ClientCall("NewClusterAdminFromClient", <<>>, Null, adminErr)
    IN  IF adminErr # NoErr
        THEN Did(<<newAdmin>>, Null, adminErr)
        ELSE Did(<<newAdmin, ClientCall("ListConsumerGroups", <<>>, groups, listErr)>>,
                 groups, listErr)

BurrowSaramaBroker_Close_ClosesClient(b, err) ==
    Did(<<BrokerCall(b.broker, "Close", <<>>, Null, err),
          ClientCall("Close", <<>>, Null, NoErr)>>, Null, err)

BurrowSaramaBroker_Close(b, err) ==
    Did(<<BrokerCall(b.broker, "Close", <<>>, Null, err)>>, Null, err)

BurrowSaramaBroker_GetAvailableOffsets(b, request, response, err) ==
    Did(<<BrokerCall(b.broker, "GetAvailableOffsets", <<request>>, response, err)>>,
        response, err)

(***************************************************************************)
(* The transport: what the sarama client and brokers do when called, and   *)
(* what they can answer.                                                   *)
(***************************************************************************)

\* The state of the transport after it served call c.  Client.Close shuts
\* down the broker connections the client manages (its brokers are closed
\* in the background); Leader and Coordinator open the broker they return;
\* RefreshMetadata refreshes the named topics, or every topic when none is
\* named; Broker.Close closes the connection of that broker.
Effect(t, c) ==
    CASE c.on = Null /\ c.op = "Close" /\ c.err = NoErr ->
             [t EXCEPT !.closed = TRUE, !.closing = t.open]
      [] c.on = Null /\ c.op \in {"Leader", "Coordinator"} ->
             [t EXCEPT !.open = @ \cup c.value]
      [] c.on = Null /\ c.op = "RefreshMetadata" /\ c.err = NoErr ->
             [t EXCEPT !.refreshed = IF c.args = <<>> THEN ClusterTopics
                                     ELSE Range(c.args)]
      [] c.on # Null /\ c.op = "Close" ->
             [t EXCEPT !.open = @ \ c.on]
      [] OTHER -> t

RECURSIVE ApplyCalls(_, _)
ApplyCalls(t, calls) ==
    IF calls = <<>> THEN t
    ELSE ApplyCalls(Effect(t, Head(calls)), Tail(calls))

\* The errors a client method can answer: a closed client answers
\* ErrClosedClient.
ClientErrs(t) == IF t.closed THEN {"ErrClosedClient"} ELSE {NoErr, "ErrOutOfBrokers"}

\* The errors a broker method can answer: a broker without a connection
\* answers ErrNotConnected.
BrokerErrs(t, broker) == IF broker \in t.open THEN {NoErr, "EOF"} ELSE {"ErrNotConnected"}

\* The value beside an error: a result on success, the zero value otherwise.
ValueWith(err) == IF err = NoErr THEN Ref("result") ELSE Null

\* The orders in which the client can list its brokers: none once closed.
BrokerLists(t) ==
    IF t.closed THEN {<<>>}
    ELSE { q \in [1..Cardinality(ClusterBrokers) -> ClusterBrokers] :
             Range(q) = ClusterBrokers }

configVars == <<viper, files, result, call, prev, prevCall, resolved>>

NoReturn == [recv |-> Null, op |-> "", args |-> <<>>, value |-> Null, err |-> NoErr]

\* An adapter method returns: the transport has served its calls, the caller
\* holds the broker shims it was given.
Return(recv, op, args, did, shims) ==
    /\ Len(handles) + Len(shims) <= MaxHandles
    /\ tlog' = did.calls
    /\ ret' = [recv |-> recv, op |-> op, args |-> args,
               value |-> did.value, err |-> did.err]
    /\ transport' = ApplyCalls(transport, did.calls)
    /\ handles' = handles \o [i \in DOMAIN shims |-> Deref(shims[i])]
    /\ UNCHANGED configVars
    /\ UNCHANGED mock

Call(op, args, err) ==
    /\ err \in ClientErrs(transport)
    /\ Return(Null, op, args, Forward(op, args, ValueWith(err), err), <<>>)

Brokers(brokers) ==
    /\ brokers \in BrokerLists(transport)
    /\ LET did == BurrowSaramaClient_Brokers(brokers)
       IN  Return(Null, "Brokers", <<>>, did, did.value)

Leader(topic, partitionID, broker, err) ==
    /\ err \in ClientErrs(transport)
    /\ (err = NoErr) = (broker # Null)
    /\ LET did == BurrowSaramaClient_Leader(topic, partitionID, broker, err)
       IN  Return(Null, "Leader", <<topic, partitionID>>, did,
                  IF did.value = Null THEN <<>> ELSE <<did.value>>)

Coordinator(consumerGroup, broker, err) ==
    /\ err \in ClientErrs(transport)
    /\ (err = NoErr) = (broker # Null)
    /\ LET did == BurrowSaramaClient_Coordinator(consumerGroup, broker, err)
       IN  Return(Null, "Coordinator", <<consumerGroup>>, did,
                  IF did.value = Null THEN <<>> ELSE <<did.value>>)

RefreshMetadata(topics, err) ==
    /\ err \in ClientErrs(transport)
    /\ Return(Null, "RefreshMetadata", topics,
              BurrowSaramaClient_RefreshMetadata(topics, err), <<>>)

Close ==
    Return(Null, "Close", <<>>,
           BurrowSaramaClient_Close(IF transport.closed THEN "ErrClosedClient" ELSE NoErr),
           <<>>)

Closed ==
    Return(Null, "Closed", <<>>, BurrowSaramaClient_Closed(transport.closed), <<>>)

ListConsumerGroups(adminErr, listErr) ==
    /\ adminErr \in ClientErrs(transport)
    /\ listErr \in ClientErrs(transport)
    /\ Return(Null, "ListConsumerGroups", <<>>,
              BurrowSaramaClient_ListConsumerGroups(adminErr, ValueWith(listErr), listErr),
              <<>>)

\* Close of the h-th broker handle.
BrokerClose(h, err) ==
    /\ h \in DOMAIN handles
    /\ err \in BrokerErrs(transport, handles[h].broker)
    /\ Return(Ref(h), "Close", <<>>, BurrowSaramaBroker_Close(handles[h], err), <<>>)

GetAvailableOffsets(h, err) ==
    /\ h \in DOMAIN handles
    /\ err \in BrokerErrs(transport, handles[h].broker)
    /\ Return(Ref(h), "GetAvailableOffsets", <<"request">>,
              BurrowSaramaBroker_GetAvailableOffsets(handles[h], "request",
                                                     ValueWith(err), err),
              <<>>)

\* The closed client shuts down the connection of one of its brokers.
ShutDown(broker) ==
    /\ broker \in transport.closing
    /\ transport' = [transport EXCEPT !.open = @ \ {broker}, !.closing = @ \ {broker}]
    /\ UNCHANGED <<handles, tlog, ret, mock>>
    /\ UNCHANGED configVars

\* A new client of a cluster, some of whose brokers it has connected to.
InitClient ==
    /\ viper = [config |-> EmptyMap, defaults |-> EmptyMap]
    /\ InitCalls
    /\ \E open \in SUBSET ClusterBrokers :
          transport = [closed |-> FALSE, open |-> open, closing |-> {}, refreshed |-> {}]
    /\ handles = <<>>
    /\ tlog = <<>>
    /\ ret = NoReturn
    /\ mock = Null

NextClient ==
    \/ \E f \in ForwardOps, err \in Errors : Call(f[1], f[2], err)
    \/ \E brokers \in BrokerLists(transport) : Brokers(brokers)
    \/ \E topic \in ClusterTopics, b \in ClusterBrokers, err \in Errors :
          \/ Leader(topic, 0, Ref(b), err)
          \/ Leader(topic, 0, Null, err)
    \/ \E b \in ClusterBrokers, err \in Errors :
          \/ Coordinator("group", Ref(b), err)
          \/ Coordinator("group", Null, err)
    \/ \E topics \in TopicLists, err \in Errors : RefreshMetadata(topics, err)
    \/ Close
    \/ Closed
    \/ \E adminErr \in Errors, listErr \in Errors : ListConsumerGroups(adminErr, listErr)
    \/ \E h \in 1..MaxHandles, err \in Errors : BrokerClose(h, err)
    \/ \E h \in 1..MaxHandles, err \in Errors : GetAvailableOffsets(h, err)
    \/ \E b \in ClusterBrokers : ShutDown(b)

SpecClient == InitClient /\ [][NextClient]_vars

(***************************************************************************)
(* MockSaramaClient, the test double of the client (testify's mock.Mock).  *)
(***************************************************************************)

MaxCalls == 2

\* The argument lists RefreshMetadata is expected with: none, or one
\* argument that is the list of topics.
MockArguments == {<<>>} \cup {<<topics>> : topics \in TopicLists \ {<<>>}}

\* m.Called(arguments...): the call is recorded and the return values of the
\* expectation it matches are returned; a call that matches no expectation
\* panics.
Called(m, method, arguments) ==
    IF arguments \in DOMAIN m.on
    THEN [mock  |-> [m EXCEPT !.calls = Append(@, [method |-> method,
                                                   arguments |-> arguments])],
          panic |-> NoPanic,
          args  |-> <<m.on[arguments]>>]
    ELSE [mock  |-> m,
          panic |-> <<"mock: I don't know what to return because the method call was unexpected">>,
          args  |-> <<>>]

MockSaramaClient_RefreshMetadata(m, topics) ==
    LET called == IF Len(topics) > 0
                  THEN Called(m, "RefreshMetadata", <<topics>>)
                  ELSE Called(m, "RefreshMetadata", <<>>)
    IN  [mock  |-> called.mock,
         panic |-> called.panic,
         err   |-> IF called.panic = NoPanic THEN called.args[1] ELSE NoErr]

\* One call of the test double's RefreshMetadata; the test catches a panic.
MockRefreshMetadata(topics) ==
    /\ Len(mock.calls) < MaxCalls
    /\ LET out == MockSaramaClient_RefreshMetadata(mock, topics)
       IN  mock' = [out.mock EXCEPT !.last = <<[topics |-> topics,
                                               panic  |-> out.panic,
                                               err    |-> out.err]>>]
    /\ UNCHANGED <<transport, handles, tlog, ret>>
    /\ UNCHANGED configVars

\* A test's expectations: RefreshMetadata without arguments, and with some
\* topic lists, each returning an error or none.
Expectations ==
    { e @@ f : e \in {EmptyMap} \cup {(<<>> :> x) : x \in {NoErr, "ErrOutOfBrokers"}},
               f \in {EmptyMap} \cup
                     {(<<topics>> :> NoErr) : topics \in {<<"t1">>, <<"t2">>, <<"t1", "t2">>}} }

\* A client behind the adapter and a test double with its expectations.
InitRefresh ==
    /\ viper = [config |-> EmptyMap, defaults |-> EmptyMap]
    /\ InitCalls
    /\ transport = [closed |-> FALSE, open |-> {}, closing |-> {}, refreshed |-> {}]
    /\ handles = <<>>
    /\ tlog = <<>>
    /\ ret = NoReturn
    /\ \E on \in Expectations : mock = [on |-> on, calls |-> <<>>, last |-> <<>>]

NextRefresh ==
    \/ \E topics \in TopicLists, err \in Errors : RefreshMetadata(topics, err)
    \/ \E topics \in TopicLists : MockRefreshMetadata(topics)

SpecRefresh == InitRefresh /\ [][NextRefresh]_vars

(***************************************************************************)
(* The adapter (checked under SpecClient).                                 *)
(***************************************************************************)

\* C11: an adapter call makes each transport call at most once, makes no
\* transport call after one that failed, and returns the error of its last
\* transport call as it is: a failure is returned as that same failure, a
\* success as a success.  Only ListConsumerGroups makes two transport calls,
\* the admin's creation and then its listing.
C11_TransportErrorUnchanged ==
    ret.op # "" =>
        /\ tlog # <<>>
        /\ Len(tlog) <= IF ret.op = "ListConsumerGroups" THEN 2 ELSE 1
        /\ \A i, j \in DOMAIN tlog :
               (tlog[i].on = tlog[j].on /\ tlog[i].op = tlog[j].op) => i = j
        /\ \A i \in DOMAIN tlog :
               tlog[i].err # NoErr => (i = Len(tlog) /\ ret.err = tlog[i].err)
        /\ ret.err = tlog[Len(tlog)].err

\* ListConsumerGroups has failed at the creation of the admin: the listing
\* was not called and the creation's error came back.
C11_Witness ==
    /\ ret.op = "ListConsumerGroups"
    /\ ret.err = "ErrOutOfBrokers"
    /\ Len(tlog) = 1
    /\ tlog[1].op = "NewClusterAdminFromClient"
    /\ tlog[1].err = "ErrOutOfBrokers"
    /\ ret.value = Null

\* The connection of the broker that the h-th handle wraps is open.
HandleOpen(t, hs, h) == hs[h].broker \in t.open

\* The h-th handle's connection goes from open to closed in this step.
Closes(h) ==
    /\ HandleOpen(transport, handles, h)
    /\ ~HandleOpen(transport', handles', h)

\* This step is a Close of the client, or a Close of the h-th broker handle.
ClientCloses == ret'.recv = Null /\ ret'.op = "Close" /\ Close
BrokerCloses(h) ==
    /\ ret'.recv = Ref(h)
    /\ ret'.op = "Close"
    /\ \E err \in Errors : BrokerClose(h, err)

\* C13 as stated: closing the client closes no broker handle, closing a
\* broker handle changes neither the client's closed state nor any other
\* broker handle, and a broker handle is closed only by a Close on that
\* very handle.
C13_Original ==
    [][/\ ClientCloses => \A h \in DOMAIN handles : ~Closes(h)
       /\ \A h \in DOMAIN handles :
              BrokerCloses(h) =>
                  /\ transport'.closed = transport.closed
                  /\ \A g \in DOMAIN handles \ {h} :
                         HandleOpen(transport', handles', g)
                             = HandleOpen(transport, handles, g)
       /\ \A h \in DOMAIN handles :
              Closes(h) => BrokerCloses(h)]_vars

\* C13: the adapter keeps no record of the broker handles it returns.  Close
\* of the client makes the one call Client.Close and no call on a broker, and
\* Close of a broker handle makes the one call Close on the broker it wraps,
\* which changes neither the client's closed state nor a handle of another
\* broker.  A handle is a wrapper of the client's broker: its connection is
\* closed by a Close on any handle of the same broker, or by the closed
\* client shutting down the connections it manages.
C13_HandlesShareTheBroker ==
    [][/\ ClientCloses =>
              /\ tlog' = <<ClientCall("Close", <<>>, Null, ret'.err)>>
              /\ handles' = handles
              /\ \A h \in DOMAIN handles : ~Closes(h)
       /\ \A h \in DOMAIN handles :
              BrokerCloses(h) =>
                  /\ tlog' = <<BrokerCall(handles[h].broker, "Close", <<>>, Null, ret'.err)>>
                  /\ transport'.closed = transport.closed
                  /\ handles' = handles
                  /\ \A g \in DOMAIN handles :
                         handles[g].broker # handles[h].broker =>
                             HandleOpen(transport', handles', g)
                                 = HandleOpen(transport, handles, g)
       /\ \A h \in DOMAIN handles :
              Closes(h) =>
                  \/ \E g \in DOMAIN handles :
                         /\ handles[g].broker = handles[h].broker
                         /\ BrokerCloses(g)
                  \/ /\ transport.closed
                     /\ ShutDown(handles[h].broker)]_vars

\* Two handles of the same broker, the first one closed by Close: the
\* second one's connection is closed as well, the client is not.
C13_Witness ==
    /\ Len(handles) = 2
    /\ handles[1].broker = handles[2].broker
    /\ ret.recv = Ref(1)
    /\ ret.op = "Close"
    /\ ret.err = NoErr
    /\ ~HandleOpen(transport, handles, 2)
    /\ ~transport.closed

(***************************************************************************)
(* RefreshMetadata (checked under SpecRefresh).                            *)
(***************************************************************************)

\* The argument list the test double records for a list of topics.
Recorded(topics) == IF topics = <<>> THEN <<>> ELSE <<topics>>

\* C12: RefreshMetadata of the adapter makes one refresh call of the client
\* with the very list of topics it was given, also when that list is empty;
\* a refresh that succeeded has refreshed every topic of the cluster when no
\* topic was named, and the named topics otherwise.  The test double records
\* a call without arguments when no topic was named, and a call with the
\* list of topics otherwise.
C12_NoTopicsRefreshesAll ==
    /\ ret.op = "RefreshMetadata" =>
           /\ tlog = <<ClientCall("RefreshMetadata", ret.args, Null, ret.err)>>
           /\ ret.err = NoErr =>
                  transport.refreshed = IF ret.args = <<>> THEN ClusterTopics
                                        ELSE Range(ret.args)
    /\ \A i \in DOMAIN mock.last :
           mock.last[i].panic = NoPanic =>
               /\ mock.calls # <<>>
               /\ mock.calls[Len(mock.calls)] =
                      [method |-> "RefreshMetadata",
                       arguments |-> Recorded(mock.last[i].topics)]
               /\ mock.last[i].err = mock.on[Recorded(mock.last[i].topics)]

\* Both have been called without topics: the client refreshed every topic,
\* the test double recorded a call without arguments.
C12_Witness ==
    /\ ret.op = "RefreshMetadata"
    /\ ret.args = <<>>
    /\ ret.err = NoErr
    /\ Len(tlog) = 1
    /\ tlog[1].args = <<>>
    /\ transport.refreshed = ClusterTopics
    /\ Len(mock.last) = 1
    /\ mock.last[1].topics = <<>>
    /\ mock.last[1].panic = NoPanic
    /\ mock.calls[Len(mock.calls)].arguments = <<>>

====
